---- MODULE Spec2Model ----
(***************************************************************************)
(* Model of the roadtrip export package: RelaxedJSONParser (three-tier     *)
(* cascade), CSVExporter (fixed ten-column rows on a buffered csv.Writer)  *)
(* and ExportManager.ExportFromString.                                     *)
(*                                                                         *)
(* Text is modelled as a sequence of lexemes.  A lexeme is atomic: a       *)
(* punctuation character, one whitespace character, a double-quoted        *)
(* string literal (its content opaque: no quote, no brace, no text of a    *)
(* field pattern), or a bare word.  The regular expressions and the JSON   *)
(* grammar of the source are evaluated over these lexemes.                 *)
(***************************************************************************)
EXTENDS Integers, Sequences, FiniteSets, TLC

(***************************************************************************)
(* Lexemes                                                                 *)
(***************************************************************************)
P(c) == [k |-> "punct", v |-> c]
S(c) == [k |-> "string", v |-> c]
W(c) == [k |-> "word", v |-> c]
SP == [k |-> "ws", v |-> " "]
NL == [k |-> "ws", v |-> "\n"]

LBRACE == P("{")
RBRACE == P("}")
COMMA == P(",")
COLON == P(":")

IsSpace(tok) == tok.k = "ws"

(***************************************************************************)
(* Go values held in a map[string]interface{}                              *)
(***************************************************************************)
EmptyFields == [x \in {} |-> x]

StringVal(c) == [t |-> "string", s |-> c, o |-> EmptyFields]
BoolVal(b) == [t |-> "bool", s |-> IF b THEN "true" ELSE "false", o |-> EmptyFields]
NumberVal(c) == [t |-> "float64", s |-> c, o |-> EmptyFields]
NilVal == [t |-> "nil", s |-> "", o |-> EmptyFields]
MapVal(m) == [t |-> "map", s |-> "", o |-> m]

\* a Go map variable: the nil map, or an allocated map with its entries
NilMap == [nil |-> TRUE, m |-> EmptyFields]
MakeMap(m) == [nil |-> FALSE, m |-> m]

\* m[key] = val on an allocated map (an existing entry is replaced)
MapSet(m, key, val) == [x \in (DOMAIN m) \cup {key} |-> IF x = key THEN val ELSE m[x]]

\* entries of src stored into dst one by one
MapMerge(dst, src) == [x \in (DOMAIN dst) \cup (DOMAIN src) |-> IF x \in DOMAIN src THEN src[x] ELSE dst[x]]

(***************************************************************************)
(* encoding/json over lexemes                                              *)
(***************************************************************************)
\* number literals of the JSON grammar; strconv.ParseFloat rejects those out of range
NumberWords == {"123", "1e999"}
OutOfRange == {"1e999"}

SkipSpace(toks, i) ==
    IF \E j \in i..Len(toks) : ~IsSpace(toks[j])
    THEN CHOOSE j \in i..Len(toks) : ~IsSpace(toks[j]) /\ \A n \in i..(j-1) : IsSpace(toks[n])
    ELSE Len(toks) + 1

\* ok: the grammar accepts; saved: a conversion error was saved while decoding went on
ParseFail == [ok |-> FALSE, next |-> 0, val |-> NilVal, saved |-> FALSE]
ParseOk(n, v, saved) == [ok |-> TRUE, next |-> n, val |-> v, saved |-> saved]

RECURSIVE ParseValue(_, _)
RECURSIVE ParseMembers(_, _, _, _)

\* one JSON value starting at lexeme i (i is not whitespace)
ParseValue(toks, i) ==
    IF i > Len(toks) THEN ParseFail
    ELSE LET tok == toks[i] IN
         CASE tok.k = "string" -> ParseOk(i + 1, StringVal(tok.v), FALSE)
           [] tok = W("true") -> ParseOk(i + 1, BoolVal(TRUE), FALSE)
           [] tok = W("false") -> ParseOk(i + 1, BoolVal(FALSE), FALSE)
           [] tok = W("null") -> ParseOk(i + 1, NilVal, FALSE)
           [] tok.k = "word" /\ tok.v \in NumberWords ->
                IF tok.v \in OutOfRange THEN ParseOk(i + 1, NilVal, TRUE)
                ELSE ParseOk(i + 1, NumberVal(tok.v), FALSE)
           [] tok = LBRACE ->
                LET j == SkipSpace(toks, i + 1) IN
                IF j <= Len(toks) /\ toks[j] = RBRACE
                THEN ParseOk(j + 1, MapVal(EmptyFields), FALSE)
                ELSE ParseMembers(toks, j, EmptyFields, FALSE)
           [] OTHER -> ParseFail

\* the members of an object from lexeme i on, up to the closing brace
ParseMembers(toks, i, acc, saved) ==
    IF i > Len(toks) \/ toks[i].k # "string" THEN ParseFail
    ELSE LET AfterValue(e, acc2, saved2) ==
                 IF e > Len(toks) THEN ParseFail
                 ELSE IF toks[e] = RBRACE THEN ParseOk(e + 1, MapVal(acc2), saved2)
                 ELSE IF toks[e] = COMMA
                      THEN ParseMembers(toks, SkipSpace(toks, e + 1), acc2, saved2)
                 ELSE ParseFail
             Value(r) ==
                 IF ~r.ok THEN ParseFail
                 ELSE AfterValue(SkipSpace(toks, r.next), MapSet(acc, toks[i].v, r.val),
                                 saved \/ r.saved)
             AfterKey(c) ==
                 IF c > Len(toks) \/ toks[c] # COLON THEN ParseFail
                 ELSE Value(ParseValue(toks, SkipSpace(toks, c + 1)))
         IN  AfterKey(SkipSpace(toks, i + 1))

\* the whole text is one JSON value, surrounded by optional whitespace
ParseDocument(toks) ==
    LET Whole(r) == IF r.ok /\ SkipSpace(toks, r.next) = Len(toks) + 1 THEN r ELSE ParseFail
    IN  Whole(ParseValue(toks, SkipSpace(toks, 1)))

\* json.Valid
JSONValid(toks) == ParseDocument(toks).ok

\* json.Unmarshal(data, &result) for result of type map[string]interface{}:
\* a syntax error decodes nothing; an object is decoded into the map result holds
\* (allocated if nil, existing entries kept), a saved conversion error is returned
\* after the decode; null sets the map to nil; any other value is a type error
JSONUnmarshal(toks, result) ==
    LET Decode(r) ==
            IF ~r.ok THEN [err |-> TRUE, result |-> result]
            ELSE IF r.val.t = "nil" /\ ~r.saved THEN [err |-> FALSE, result |-> NilMap]
            ELSE IF r.val.t = "map"
                 THEN [err |-> r.saved, result |-> MakeMap(MapMerge(result.m, r.val.o))]
            ELSE [err |-> TRUE, result |-> result]
    IN  Decode(ParseDocument(toks))

(***************************************************************************)
(* strings                                                                 *)
(***************************************************************************)
\* strings.TrimSpace
TrimSpace(toks) ==
    LET first == SkipSpace(toks, 1) IN
    IF first > Len(toks) THEN <<>>
    ELSE LET last == CHOOSE j \in first..Len(toks) :
                        ~IsSpace(toks[j]) /\ \A n \in (j+1)..Len(toks) : IsSpace(toks[n])
         IN  SubSeq(toks, first, last)

RECURSIVE SplitFrom(_, _)
\* the lines of toks from lexeme i on
SplitFrom(toks, i) ==
    IF \E j \in i..Len(toks) : toks[j] = NL
    THEN LET j == CHOOSE j \in i..Len(toks) : toks[j] = NL /\ \A n \in i..(j-1) : toks[n] # NL
         IN  <<SubSeq(toks, i, j - 1)>> \o SplitFrom(toks, j + 1)
    ELSE <<SubSeq(toks, i, Len(toks))>>

\* variant: a text that is one JSON value is kept whole
SplitLines_KeepValue(toks) == IF JSONValid(toks) THEN <<toks>> ELSE SplitFrom(toks, 1)

\* strings.Split(s, "\n")
SplitLines(toks) == SplitFrom(toks, 1)

(***************************************************************************)
(* regexp: the two patterns of jsonPatterns                                *)
(***************************************************************************)
DescriptionPattern == "\\{[^{}]*\"description\"[^{}]*\\}"
MinimalPattern == "\\{.*?\\}"

jsonPatterns == <<DescriptionPattern, MinimalPattern>>

IsBrace(tok) == tok = LBRACE \/ tok = RBRACE

\* index of the last lexeme of the match of the pattern that starts at i, 0 if none
SpanEnd(pattern, toks, i) ==
    IF toks[i] # LBRACE THEN 0
    ELSE IF pattern = DescriptionPattern
    THEN IF \E j \in (i+1)..Len(toks) : IsBrace(toks[j])
         THEN LET j == CHOOSE j \in (i+1)..Len(toks) :
                          IsBrace(toks[j]) /\ \A n \in (i+1)..(j-1) : ~IsBrace(toks[n])
              IN  IF toks[j] = RBRACE /\ \E d \in (i+1)..(j-1) : toks[d] = S("description")
                  THEN j ELSE 0
         ELSE 0
    ELSE IF \E j \in (i+1)..Len(toks) : toks[j] = RBRACE
         THEN LET j == CHOOSE j \in (i+1)..Len(toks) :
                          toks[j] = RBRACE /\ \A n \in (i+1)..(j-1) : toks[n] # RBRACE
              IN  IF \A n \in (i+1)..(j-1) : toks[n] # NL THEN j ELSE 0
         ELSE 0

RECURSIVE FindAllFrom(_, _, _)
\* the matches of the pattern that start at lexeme i or later
FindAllFrom(pattern, toks, i) ==
    IF \E j \in i..Len(toks) : SpanEnd(pattern, toks, j) # 0
    THEN LET j == CHOOSE j \in i..Len(toks) :
                     SpanEnd(pattern, toks, j) # 0 /\ \A n \in i..(j-1) : SpanEnd(pattern, toks, n) = 0
             e == SpanEnd(pattern, toks, j)
         IN  <<SubSeq(toks, j, e)>> \o FindAllFrom(pattern, toks, e + 1)
    ELSE <<>>

\* pattern.FindAllString(input, -1): leftmost matches, non-overlapping
FindAllString(pattern, toks) == FindAllFrom(pattern, toks, 1)

(***************************************************************************)
(* regexp: the field patterns of parseManually                             *)
(***************************************************************************)
Lit(tok) == [e |-> "lit", tok |-> tok]
Spaces1 == [e |-> "\\s+", tok |-> SP]
Spaces0 == [e |-> "\\s*", tok |-> SP]
Quoted == [e |-> "\"([^\"]*)\"", tok |-> SP]
TrueFalse == [e |-> "(true|false)", tok |-> SP]

patterns ==
    [key \in {"description", "has_music", "transcript", "song_title", "song_artist", "video_path"} |->
        CASE key = "description" -> <<Lit(W("description")), Spaces1, Lit(W("of")), Spaces1, Quoted>>
          [] key = "has_music" -> <<Lit(W("music:")), Spaces0, TrueFalse>>
          [] key = "transcript" -> <<Lit(S("transcript")), Spaces0, Lit(COLON), Spaces0, Quoted>>
          [] key = "song_title" -> <<Lit(W("title")), Spaces1, Lit(W("is")), Spaces1, Quoted>>
          [] key = "song_artist" -> <<Lit(W("by")), Spaces1, Quoted>>
          [] key = "video_path" -> <<Lit(W("path")), Spaces1, Lit(W("is")), Spaces1, Quoted>>]

NoMatch == [len |-> 0, group |-> ""]

RECURSIVE MatchFrom(_, _, _, _, _)
\* pattern elements k.. matched against the lexemes from i on
MatchFrom(pat, k, toks, i, group) ==
    IF k > Len(pat) THEN [len |-> 2, group |-> group]
    ELSE LET el == pat[k] IN
         CASE el.e = "\\s*" -> MatchFrom(pat, k + 1, toks, SkipSpace(toks, i), group)
           [] el.e = "\\s+" ->
                IF i <= Len(toks) /\ IsSpace(toks[i])
                THEN MatchFrom(pat, k + 1, toks, SkipSpace(toks, i), group) ELSE NoMatch
           [] el.e = "lit" ->
                IF i <= Len(toks) /\ toks[i] = el.tok
                THEN MatchFrom(pat, k + 1, toks, i + 1, group) ELSE NoMatch
           [] el.e = "\"([^\"]*)\"" ->
                IF i <= Len(toks) /\ toks[i].k = "string"
                THEN MatchFrom(pat, k + 1, toks, i + 1, toks[i].v) ELSE NoMatch
           [] el.e = "(true|false)" ->
                IF i <= Len(toks) /\ toks[i] \in {W("true"), W("false")}
                THEN MatchFrom(pat, k + 1, toks, i + 1, toks[i].v) ELSE NoMatch

\* variant: the rightmost match instead of the leftmost
FindStringSubmatch_Last(pat, toks) ==
    IF \E i \in 1..Len(toks) : MatchFrom(pat, 1, toks, i, "").len > 1
    THEN LET i == CHOOSE i \in 1..Len(toks) :
                     /\ MatchFrom(pat, 1, toks, i, "").len > 1
                     /\ \A n \in (i+1)..Len(toks) : MatchFrom(pat, 1, toks, n, "").len = 0
         IN  MatchFrom(pat, 1, toks, i, "")
    ELSE NoMatch

\* pattern.FindStringSubmatch(input): the leftmost match and its group
FindStringSubmatch(pat, toks) ==
    IF \E i \in 1..Len(toks) : MatchFrom(pat, 1, toks, i, "").len > 1
    THEN LET i == CHOOSE i \in 1..Len(toks) :
                     /\ MatchFrom(pat, 1, toks, i, "").len > 1
                     /\ \A n \in 1..(i-1) : MatchFrom(pat, 1, toks, n, "").len = 0
         IN  MatchFrom(pat, 1, toks, i, "")
    ELSE NoMatch

(***************************************************************************)
(* RelaxedJSONParser                                                       *)
(***************************************************************************)
LogEntry(level, msg, line) == [level |-> level, msg |-> msg, line |-> line]

\* the orders in which the range over the patterns map may visit its keys
RangeOrders ==
    {order \in [1..Cardinality(DOMAIN patterns) -> DOMAIN patterns] :
        \A a, b \in DOMAIN order : a # b => order[a] # order[b]}

\* one of them, for a call whose order is not looked at
SomeOrder == CHOOSE order \in RangeOrders : TRUE

\* result[key] = matches[1], or the boolean for has_music
Extracted(key, group) ==
    IF key = "has_music" THEN BoolVal(group = "true") ELSE StringVal(group)

RECURSIVE RangePatterns_Break(_, _, _, _)
\* variant: the loop is left after the first pattern that matched
RangePatterns_Break(input, order, n, result) ==
    IF n > Cardinality(DOMAIN patterns) THEN result
    ELSE LET Matched(matches) ==
                 IF matches.len > 1
                 THEN MapSet(result, order[n], Extracted(order[n], matches.group))
                 ELSE RangePatterns_Break(input, order, n + 1, result)
         IN  Matched(FindStringSubmatch(patterns[order[n]], input))

RECURSIVE RangePatterns(_, _, _, _)
\* the loop of parseManually from the n-th key the range visits on
RangePatterns(input, order, n, result) ==
    IF n > Cardinality(DOMAIN patterns) THEN result
    ELSE LET Matched(matches) ==
                 IF matches.len > 1
                 THEN MapSet(result, order[n], Extracted(order[n], matches.group))
                 ELSE result
         IN  RangePatterns(input, order, n + 1,
                           Matched(FindStringSubmatch(patterns[order[n]], input)))

\* parseManually with the range visiting the keys in the given order
parseManuallyIn(input, order) ==
    LET Ranged(result) ==
            IF Cardinality(DOMAIN result) = 0
            THEN [err |-> TRUE, result |-> NilMap, via |-> "manual", logs |-> <<>>]
            ELSE [err |-> FALSE, result |-> MakeMap(result), via |-> "manual",
                  logs |-> <<LogEntry("INFO", "Successfully parsed data using manual parsing", 0)>>]
    IN  Ranged(RangePatterns(input, order, 1, EmptyFields))

\* variant: the check for an empty result is missing
parseManually_EmptyOk(input) ==
    [err |-> FALSE, result |-> MakeMap(RangePatterns(input, SomeOrder, 1, EmptyFields)),
     via |-> "manual",
     logs |-> <<LogEntry("INFO", "Successfully parsed data using manual parsing", 0)>>]

\* parseManually: the heuristic tier
parseManually(input) == parseManuallyIn(input, SomeOrder)

RECURSIVE Candidates_MinimalFirst(_, _)
\* variant: the patterns are visited in the reverse order
Candidates_MinimalFirst(input, p) ==
    IF p > Len(jsonPatterns) THEN <<>>
    ELSE LET pattern == jsonPatterns[Len(jsonPatterns) + 1 - p]
             matches == FindAllString(pattern, input)
         IN  [n \in 1..Len(matches) |-> [pattern |-> pattern, match |-> matches[n]]]
                \o Candidates_MinimalFirst(input, p + 1)

RECURSIVE Candidates(_, _)
\* the matches in the order the two loops of ParseJSON visit them
Candidates(input, p) ==
    IF p > Len(jsonPatterns) THEN <<>>
    ELSE LET matches == FindAllString(jsonPatterns[p], input) IN
         [n \in 1..Len(matches) |-> [pattern |-> jsonPatterns[p], match |-> matches[n]]]
            \o Candidates(input, p + 1)

RECURSIVE TryCandidates(_, _, _, _)
\* the loops of ParseJSON from candidate c on; result is the variable every decode writes to
TryCandidates(input, cands, c, result) ==
    IF c > Len(cands) THEN parseManually(input)
    ELSE LET Decoded(u) ==
                 IF ~u.err
                 THEN [err |-> FALSE, result |-> u.result, via |-> cands[c].pattern,
                       logs |-> <<LogEntry("INFO", "Successfully parsed JSON using relaxed parsing", 0)>>]
                 ELSE TryCandidates(input, cands, c + 1, u.result)
         IN  Decoded(JSONUnmarshal(cands[c].match, result))

StandardFailed == LogEntry("WARN", "Standard JSON parsing failed, attempting relaxed parsing", 0)

\* variant: the embedded candidates are tried before the standard parse
ParseJSON_EmbeddedFirst(input) ==
    LET Standard(u, r) ==
            IF ~u.err
            THEN [err |-> FALSE, result |-> u.result, via |-> "standard", logs |-> <<>>]
            ELSE r
        Relaxed(r) ==
            IF ~r.err /\ r.via # "manual" THEN r
            ELSE Standard(JSONUnmarshal(input, NilMap), r)
    IN  Relaxed(TryCandidates(input, Candidates(input, 1), 1, NilMap))

\* ParseJSON: standard parse, then embedded candidates, then the manual fallback
ParseJSON(input) ==
    LET Decoded(u) ==
            IF ~u.err
            THEN [err |-> FALSE, result |-> u.result, via |-> "standard", logs |-> <<>>]
            ELSE [TryCandidates(input, Candidates(input, 1), 1, u.result)
                     EXCEPT !.logs = <<StandardFailed>> \o @]
    IN  Decoded(JSONUnmarshal(input, NilMap))

(***************************************************************************)
(* CSVExporter                                                             *)
(***************************************************************************)
header ==
    <<"description", "has_music", "transcript", "song_title", "song_artist",
      "web_search_song_title", "web_search_song_artist", "youtube_url", "spotify_url",
      "video_path">>

\* variant: a value of any type is formatted instead of being dropped
getString_Sprint(record, key) ==
    IF key \in DOMAIN record.m
    THEN (IF record.m[key].t = "nil" THEN "<nil>" ELSE record.m[key].s)
    ELSE ""

getString(record, key) ==
    IF key \in DOMAIN record.m /\ record.m[key].t = "string" THEN record.m[key].s ELSE ""

getBoolString(record, key) ==
    IF key \in DOMAIN record.m /\ record.m[key].t = "bool"
    THEN (IF record.m[key].s = "true" THEN "true" ELSE "false")
    ELSE "false"

\* variant: description and video_path written in each other's column
RecordRow_Swapped(record) ==
    <<getString(record, "video_path"),
      getBoolString(record, "has_music"),
      getString(record, "transcript"),
      getString(record, "song_title"),
      getString(record, "song_artist"),
      getString(record, "web_search_song_title"),
      getString(record, "web_search_song_artist"),
      getString(record, "youtube_url"),
      getString(record, "spotify_url"),
      getString(record, "description")>>

\* the row WriteRecord builds
RecordRow(record) ==
    <<getString(record, "description"),
      getBoolString(record, "has_music"),
      getString(record, "transcript"),
      getString(record, "song_title"),
      getString(record, "song_artist"),
      getString(record, "web_search_song_title"),
      getString(record, "web_search_song_artist"),
      getString(record, "youtube_url"),
      getString(record, "spotify_url"),
      getString(record, "video_path")>>

(***************************************************************************)
(* encoding/csv Writer on a bufio.Writer on the output io.Writer           *)
(* io is [buf, werr, out, ok, rejected]: rows waiting in the buffer, the   *)
(* buffer's sticky error, rows the destination accepted, whether the       *)
(* destination accepts writes, whether it ever rejected one.               *)
(***************************************************************************)
BufRows == 2

\* csv.Writer.Write(row): the row is buffered; a full buffer is first written out
WriterWrite(io, row) ==
    IF io.werr THEN [io |-> io, err |-> TRUE]
    ELSE IF Len(io.buf) < BufRows THEN [io |-> [io EXCEPT !.buf = Append(@, row)], err |-> FALSE]
    ELSE IF io.ok THEN [io |-> [io EXCEPT !.out = @ \o io.buf, !.buf = <<row>>], err |-> FALSE]
    ELSE [io |-> [io EXCEPT !.werr = TRUE, !.rejected = TRUE], err |-> TRUE]

\* csv.Writer.Flush(): returns nothing; a failure stays in the buffer's sticky error
WriterFlush(io) ==
    IF io.werr \/ io.buf = <<>> THEN io
    ELSE IF io.ok THEN [io EXCEPT !.out = @ \o io.buf, !.buf = <<>>]
    ELSE [io EXCEPT !.werr = TRUE, !.rejected = TRUE]

\* the exporter's methods; trace lists the calls made on the exporter, in order
Called(io, method) == [io EXCEPT !.trace = Append(@, method)]

WriteHeader(io) == WriterWrite(Called(io, "WriteHeader"), header)
WriteRecord(io, record) == WriterWrite(Called(io, "WriteRecord"), RecordRow(record))
Flush(io) == WriterFlush(Called(io, "Flush"))

(***************************************************************************)
(* Inputs: JSON objects, their text, prose                                 *)
(***************************************************************************)
ObjComplete ==
    ("description" :> StringVal("Video 1")) @@ ("has_music" :> BoolVal(TRUE))
        @@ ("video_path" :> StringVal("gs://bucket/video1.mp4"))
ObjSparse ==
    ("video_path" :> StringVal("gs://bucket/video2.mp4")) @@ ("note" :> NumberVal("123"))
ObjNested ==
    ("description" :> StringVal("Test video"))
        @@ ("song" :> MapVal(("title" :> StringVal("Test Song")) @@ ("artist" :> StringVal("Test Artist"))))
ObjMistyped ==
    ("description" :> NumberVal("123")) @@ ("has_music" :> StringVal("true"))
        @@ ("transcript" :> NilVal) @@ ("song_title" :> StringVal("Anthem"))
ObjEmpty == EmptyFields
ObjHuge ==
    ("description" :> StringVal("Video 4")) @@ ("note" :> NumberVal("1e999"))

ObjSpoken ==
    ("description" :> StringVal("Talk")) @@ ("transcript" :> StringVal("Hello world"))

Objects == {ObjComplete, ObjSparse, ObjNested, ObjMistyped, ObjEmpty, ObjHuge}

KeyOrder ==
    <<"description", "has_music", "transcript", "song_title", "song", "title", "artist",
      "video_path", "note">>

RECURSIVE RenderObject(_, _)
RECURSIVE RenderMembers(_, _, _, _)

RenderValue(val, style) ==
    CASE val.t = "string" -> <<S(val.s)>>
      [] val.t = "bool" -> <<W(val.s)>>
      [] val.t = "float64" -> <<W(val.s)>>
      [] val.t = "nil" -> <<W("null")>>
      [] val.t = "map" -> RenderObject(val.o, "compact")

\* the members of m with keys KeyOrder[n..], first tells whether a separator is due
RenderMembers(m, n, first, style) ==
    IF n > Len(KeyOrder) THEN <<>>
    ELSE IF KeyOrder[n] \notin DOMAIN m THEN RenderMembers(m, n + 1, first, style)
    ELSE (IF first THEN <<>> ELSE <<COMMA>>)
            \o (IF style = "pretty" THEN <<NL, SP>> ELSE IF first THEN <<>> ELSE <<SP>>)
            \o <<S(KeyOrder[n]), COLON, SP>> \o RenderValue(m[KeyOrder[n]], style)
            \o RenderMembers(m, n + 1, FALSE, style)

\* the JSON text of an object, on one line ("compact") or one member per line ("pretty")
RenderObject(m, style) ==
    <<LBRACE>> \o RenderMembers(m, 1, TRUE, style)
        \o (IF style = "pretty" /\ DOMAIN m # {} THEN <<NL>> ELSE <<>>) \o <<RBRACE>>

Styles == {"compact", "pretty"}

\* prose that matches none of the field patterns
Before == <<W("Prose"), SP, W("text"), SP, W("with"), SP, W("JSON"), SP, W("embedded:"), SP>>
After == <<SP, W("and"), SP, W("more"), SP, W("text")>>
Malformed == <<W("This"), SP, W("is"), SP, W("malformed"), SP, W("JSON")>>
\* prose the field patterns match
Heuristic ==
    <<W("contains"), SP, W("music:"), SP, W("true"), P("."), SP, W("The"), SP, W("song"), SP,
      W("title"), SP, W("is"), SP, S("Roadtrip Anthem"), SP, W("by"), SP, S("Travel Band"),
      SP, W("or"), SP, W("by"), SP, S("Other Band")>>
\* prose with the other has_music token, no space before it
HeuristicFalse == <<W("has"), SP, W("music:"), W("false"), SP, W("path"), SP, W("is"), SP, S("")>>
Unclosed == <<LBRACE, S("description"), COLON, SP, S("Video 5")>>
NoColon == <<LBRACE, S("description"), SP, S("Video 5"), RBRACE>>

\* texts with two objects in them
Between == <<SP, W("then"), SP>>
HugeThenComplete ==
    Before \o RenderObject(ObjHuge, "compact") \o Between \o RenderObject(ObjComplete, "compact")
SparseThenComplete ==
    RenderObject(ObjSparse, "compact") \o Between \o RenderObject(ObjComplete, "compact")
CompleteThenMistyped ==
    RenderObject(ObjComplete, "compact") \o Between \o RenderObject(ObjMistyped, "compact")
NoColonThenSparse == NoColon \o Between \o RenderObject(ObjSparse, "compact")

Prefixes == {<<>>, Before}
Suffixes == {<<>>, After}

\* an object's text inside prose
Embed(pre, m, style, post) == pre \o RenderObject(m, style) \o post

ParserInputs ==
    {Embed(pre, m, style, post) : pre \in Prefixes, m \in Objects, style \in Styles, post \in Suffixes}
        \cup {<<SP>> \o RenderObject(m, "compact") \o <<NL>> : m \in Objects}
        \cup {HugeThenComplete, SparseThenComplete, CompleteThenMistyped, NoColonThenSparse}
        \cup {<<>>, Malformed, Heuristic, HeuristicFalse, Unclosed, <<W("null")>>, <<W("123")>>, <<S("Video 1")>>,
              NoColon, Before \o NoColon, Before \o <<LBRACE, RBRACE>>}

\* the kinds of line an export input is made of
LineKinds ==
    {RenderObject(ObjComplete, "compact"),
     Embed(Before, ObjSparse, "compact", After),
     RenderObject(ObjNested, "compact"),
     RenderObject(ObjMistyped, "compact"),
     Malformed,
     Heuristic,
     <<W("null")>>,
     <<SP>>}

MaxLines == 3

RECURSIVE JoinLines(_)
JoinLines(ls) ==
    IF Len(ls) = 0 THEN <<>>
    ELSE IF Len(ls) = 1 THEN ls[1]
    ELSE ls[1] \o <<NL>> \o JoinLines(Tail(ls))

\* objects written over several lines
PrettyObjects == {ObjComplete, ObjSpoken}

ExportInputs ==
    {JoinLines(ls) : ls \in UNION {[1..n -> LineKinds] : n \in 0..MaxLines}}
        \cup {RenderObject(m, "pretty") : m \in PrettyObjects}

(***************************************************************************)
(* video: parseTime                                                        *)
(***************************************************************************)
\* a Go string is the sequence of its characters
Digits == <<"0", "1", "2", "3", "4", "5", "6", "7", "8", "9">>

IsDigit(c) == \E d \in 1..Len(Digits) : Digits[d] = c
DigitValue(c) == (CHOOSE d \in 1..Len(Digits) : Digits[d] = c) - 1

RECURSIVE SplitAt(_, _)
\* strings.Split(str, sep) for a one-character separator
SplitAt(str, sep) ==
    IF \E i \in 1..Len(str) : str[i] = sep
    THEN LET i == CHOOSE i \in 1..Len(str) : str[i] = sep /\ \A n \in 1..(i-1) : str[n] # sep
         IN  <<SubSeq(str, 1, i - 1)>> \o SplitAt(SubSeq(str, i + 1, Len(str)), sep)
    ELSE <<str>>

RECURSIVE DecimalValue(_)
DecimalValue(ds) ==
    IF ds = <<>> THEN 0
    ELSE 10 * DecimalValue(SubSeq(ds, 1, Len(ds) - 1)) + DigitValue(ds[Len(ds)])

\* strconv.Atoi: an optional sign, then one or more decimal digits
Atoi(str) ==
    LET signed == Len(str) > 0 /\ str[1] \in {"+", "-"}
        ds == IF signed THEN Tail(str) ELSE str
    IN  IF ds = <<>> \/ \E i \in 1..Len(ds) : ~IsDigit(ds[i])
        THEN [err |-> TRUE, n |-> 0]
        ELSE [err |-> FALSE,
              n |-> IF signed /\ str[1] = "-" THEN 0 - DecimalValue(ds) ELSE DecimalValue(ds)]

TimeError(msg) == [seconds |-> 0, err |-> msg]

\* variant: the upper limits of the three ranges are not checked
parseTime_NoUpperLimit(timeStr) ==
    IF timeStr = <<>> THEN [seconds |-> 0, err |-> "nil"]
    ELSE LET parts == SplitAt(timeStr, ":") IN
         IF Len(parts) # 3 THEN TimeError("time format must be HH:MM:SS")
         ELSE LET hours == Atoi(parts[1])
                  minutes == Atoi(parts[2])
                  seconds == Atoi(parts[3])
              IN  IF hours.err THEN TimeError("invalid hours")
                  ELSE IF hours.n < 0 THEN TimeError("hours must be between 0 and 23")
                  ELSE IF minutes.err THEN TimeError("invalid minutes")
                  ELSE IF minutes.n < 0 THEN TimeError("minutes must be between 0 and 59")
                  ELSE IF seconds.err THEN TimeError("invalid seconds")
                  ELSE IF seconds.n < 0 THEN TimeError("seconds must be between 0 and 59")
                  ELSE [seconds |-> hours.n * 3600 + minutes.n * 60 + seconds.n, err |-> "nil"]

\* parseTime: HH:MM:SS to seconds
parseTime(timeStr) ==
    IF timeStr = <<>> THEN [seconds |-> 0, err |-> "nil"]
    ELSE LET parts == SplitAt(timeStr, ":") IN
         IF Len(parts) # 3 THEN TimeError("time format must be HH:MM:SS")
         ELSE LET hours == Atoi(parts[1])
                  minutes == Atoi(parts[2])
                  seconds == Atoi(parts[3])
              IN  IF hours.err THEN TimeError("invalid hours")
                  ELSE IF hours.n < 0 \/ hours.n > 23
                  THEN TimeError("hours must be between 0 and 23")
                  ELSE IF minutes.err THEN TimeError("invalid minutes")
                  ELSE IF minutes.n < 0 \/ minutes.n > 59
                  THEN TimeError("minutes must be between 0 and 59")
                  ELSE IF seconds.err THEN TimeError("invalid seconds")
                  ELSE IF seconds.n < 0 \/ seconds.n > 59
                  THEN TimeError("seconds must be between 0 and 59")
                  ELSE [seconds |-> hours.n * 3600 + minutes.n * 60 + seconds.n, err |-> "nil"]

\* texts that are integers, each with the integer it denotes
Numerals ==
    {[text |-> <<"0", "0">>, val |-> 0], [text |-> <<"0">>, val |-> 0],
     [text |-> <<"0", "1">>, val |-> 1], [text |-> <<"2", "3">>, val |-> 23],
     [text |-> <<"2", "4">>, val |-> 24], [text |-> <<"5", "9">>, val |-> 59],
     [text |-> <<"6", "0">>, val |-> 60], [text |-> <<"-", "1">>, val |-> 0 - 1],
     [text |-> <<"+", "5">>, val |-> 5], [text |-> <<"-", "0">>, val |-> 0]}

\* texts that are not integers
NonNumerals == {<<>>, <<"a", "b">>, <<"1", "a">>, <<" ", "1">>, <<"1", ".", "5">>, <<"-">>}

PartTexts == {num.text : num \in Numerals} \cup NonNumerals

HMS(h, m, s) == h \o <<":">> \o m \o <<":">> \o s

\* the arguments parseTime is called with: one to four parts joined by colons
TimeStrings ==
    {<<>>}
        \cup PartTexts
        \cup {h \o <<":">> \o m : h, m \in PartTexts}
        \cup {HMS(h, m, s) : h, m, s \in PartTexts}
        \cup {HMS(h, m, s) \o <<":">> \o f : h, m \in {<<"0", "0">>, <<>>}, s, f \in {<<"0", "1">>, <<>>}}

(***************************************************************************)
(* video: SplitVideo                                                       *)
(***************************************************************************)
\* Go's integer division truncates toward zero, the remainder has the dividend's sign
Abs(n) == IF n < 0 THEN 0 - n ELSE n
Quo(a, b) == IF (a < 0) = (b < 0) THEN Abs(a) \div Abs(b) ELSE 0 - (Abs(a) \div Abs(b))
Rem(a, b) == a - b * Quo(a, b)

\* numChunks for a duration and a chunkDuration other than 0
NumChunks(duration, chunkDuration) ==
    IF Rem(duration, chunkDuration) # 0
    THEN Quo(duration, chunkDuration) + 1
    ELSE Quo(duration, chunkDuration)

RECURSIVE Itoa(_)
\* the decimal digits of a number that is not negative
Itoa(n) == IF n < 10 THEN <<Digits[n + 1]>> ELSE Itoa(n \div 10) \o <<Digits[(n % 10) + 1]>>

\* fmt.Sprintf("chunk_%03d.mp4", n): at least three digits, zeros in front
ChunkFile(n) ==
    <<"chunk_">> \o [k \in 1..(3 - Len(Itoa(n))) |-> "0"] \o Itoa(n) \o <<".mp4">>

\* variant: the end of the last chunk is not cut back to the end of the range
Chunk_NoClip(start, end, chunkDuration, i) ==
    [outputFile |-> ChunkFile(i + 1), start |-> start + i * chunkDuration,
     end |-> start + i * chunkDuration + chunkDuration]

\* the arguments of the i-th extractChunk call (i counts from 0)
Chunk(start, end, chunkDuration, i) ==
    LET chunkStart == start + i * chunkDuration
        chunkEnd == chunkStart + chunkDuration
    IN  [outputFile |-> ChunkFile(i + 1), start |-> chunkStart,
         end |-> IF chunkEnd > end THEN end ELSE chunkEnd]

\* the loop over the chunks: the calls made and what the function returns, when the
\* failAt-th run of ffmpeg fails (none fails when failAt is 0 or beyond the last)
SplitLoop(start, end, chunkDuration, failAt) ==
    LET numChunks == NumChunks(end - start, chunkDuration)
        failed == failAt >= 1 /\ failAt <= numChunks
        made == IF failed THEN failAt ELSE IF numChunks > 0 THEN numChunks ELSE 0
    IN  [calls |-> [n \in 1..made |-> Chunk(start, end, chunkDuration, n - 1)],
         ret |-> IF failed THEN "failed to extract chunk" ELSE "nil"]

\* variant: the comparison of start and end is missing
SplitBody_NoOrderCheck(stat, mkdirOk, startTime, endTime, chunkDuration, failAt) ==
    LET start == parseTime(startTime)
        end == parseTime(endTime)
        Returned(mkdir, msg) == [mkdir |-> mkdir, calls |-> <<>>, ret |-> msg]
    IN  IF stat = "not exist" THEN Returned(FALSE, "input file does not exist")
        ELSE IF ~mkdirOk THEN Returned(FALSE, "failed to create output directory")
        ELSE IF start.err # "nil" THEN Returned(TRUE, "invalid start time")
        ELSE IF end.err # "nil" THEN Returned(TRUE, "invalid end time")
        ELSE IF chunkDuration = 0 THEN Returned(TRUE, "panic: integer divide by zero")
        ELSE [mkdir |-> TRUE] @@ SplitLoop(start.seconds, end.seconds, chunkDuration, failAt)

\* variant: an empty endTime stands for the end of a video of one minute
SplitBody_OpenEnd(stat, mkdirOk, startTime, endTime, chunkDuration, failAt) ==
    LET start == parseTime(startTime)
        end == IF endTime = <<>> THEN [seconds |-> 60, err |-> "nil"] ELSE parseTime(endTime)
        Returned(mkdir, msg) == [mkdir |-> mkdir, calls |-> <<>>, ret |-> msg]
    IN  IF stat = "not exist" THEN Returned(FALSE, "input file does not exist")
        ELSE IF ~mkdirOk THEN Returned(FALSE, "failed to create output directory")
        ELSE IF start.err # "nil" THEN Returned(TRUE, "invalid start time")
        ELSE IF end.err # "nil" THEN Returned(TRUE, "invalid end time")
        ELSE IF start.seconds >= end.seconds
        THEN Returned(TRUE, "start time must be before end time")
        ELSE IF chunkDuration = 0 THEN Returned(TRUE, "panic: integer divide by zero")
        ELSE [mkdir |-> TRUE] @@ SplitLoop(start.seconds, end.seconds, chunkDuration, failAt)

\* the body of SplitVideo: directory created, calls of extractChunk made, value returned
SplitBody(stat, mkdirOk, startTime, endTime, chunkDuration, failAt) ==
    LET start == parseTime(startTime)
        end == parseTime(endTime)
        Returned(mkdir, msg) == [mkdir |-> mkdir, calls |-> <<>>, ret |-> msg]
    IN  IF stat = "not exist" THEN Returned(FALSE, "input file does not exist")
        ELSE IF ~mkdirOk THEN Returned(FALSE, "failed to create output directory")
        ELSE IF start.err # "nil" THEN Returned(TRUE, "invalid start time")
        ELSE IF end.err # "nil" THEN Returned(TRUE, "invalid end time")
        ELSE IF start.seconds >= end.seconds
        THEN Returned(TRUE, "start time must be before end time")
        ELSE IF chunkDuration = 0 THEN Returned(TRUE, "panic: integer divide by zero")
        ELSE [mkdir |-> TRUE] @@ SplitLoop(start.seconds, end.seconds, chunkDuration, failAt)

\* what os.Stat tells about the input file
Stats == {"exists", "not exist", "permission denied"}

\* the time arguments SplitVideo is called with
SplitTimes ==
    {<<>>,
     HMS(<<"0", "0">>, <<"0", "0">>, <<"0", "0">>),
     HMS(<<"0", "0">>, <<"0", "0">>, <<"0", "7">>),
     HMS(<<"0", "0">>, <<"0", "0">>, <<"1", "0">>),
     HMS(<<"0", "0">>, <<"0", "1">>, <<"0", "0">>),
     HMS(<<"2", "4">>, <<"0", "0">>, <<"0", "0">>)}

ChunkDurations == {0 - 2, 0, 3, 5, 30, 60}

\* the run of ffmpeg that fails is one of the first MaxFail, or none
MaxFail == 3

(***************************************************************************)
(* storage: UploadManager.UploadFiles                                      *)
(***************************************************************************)
\* a path is the non-empty sequence of its elements, a prefix may have none
Base(path) == <<path[Len(path)]>>
Join(dir, name) == dir \o name

\* variant: the local path is joined to the prefix as a whole
RemotePath_KeepDir(remotePrefix, localPath) == Join(remotePrefix, localPath)

\* remotePath for a local path: the prefix joined with the file's base name
RemotePath(remotePrefix, localPath) == Join(remotePrefix, Base(localPath))

RECURSIVE UploadLoop_Continue(_, _, _, _, _)
\* variant: a failed upload is skipped, the error is returned after the last path
UploadLoop_Continue(localPaths, remotePrefix, outcomes, i, calls) ==
    IF i > Len(localPaths)
    THEN [calls |-> calls,
          ret |-> IF \A n \in 1..Len(localPaths) : outcomes[n] THEN "nil" ELSE "failed to upload"]
    ELSE UploadLoop_Continue(localPaths, remotePrefix, outcomes, i + 1,
             Append(calls, [localPath |-> localPaths[i],
                            remotePath |-> RemotePath(remotePrefix, localPaths[i])]))

RECURSIVE UploadLoop(_, _, _, _, _)
\* the loop of UploadFiles from path i on; outcomes[i] tells whether the client's
\* UploadFile succeeds for path i
UploadLoop(localPaths, remotePrefix, outcomes, i, calls) ==
    IF i > Len(localPaths) THEN [calls |-> calls, ret |-> "nil"]
    ELSE LET called == Append(calls, [localPath |-> localPaths[i],
                                      remotePath |-> RemotePath(remotePrefix, localPaths[i])])
         IN  IF ~outcomes[i] THEN [calls |-> called, ret |-> "failed to upload"]
             ELSE UploadLoop(localPaths, remotePrefix, outcomes, i + 1, called)

LocalPaths == {<<"file1.mp4">>, <<"out", "chunk_001.mp4">>, <<"tmp", "out", "file1.mp4">>}
RemotePrefixes == {<<>>, <<"videos", "trip">>}

MaxPaths == 3

\* the lists of paths a call is made with
PathLists == UNION {[1..n -> LocalPaths] : n \in 0..MaxPaths}

(***************************************************************************)
(* ai: AnalysisManager.AnalyzeVideos                                       *)
(***************************************************************************)
\* a Go slice variable: the nil slice, or a slice with its elements
NilSlice == [nil |-> TRUE, items |-> <<>>]
AppendSlice(slice, el) == [nil |-> FALSE, items |-> Append(slice.items, el)]

\* what the client's AnalyzeVideo may answer for a path: an error, or one of two analyses
Answers == {"error", "music", "silent"}

\* the response the client returns for a path when it answers with an analysis
ClientResponse(videoPath, answer) ==
    [description |-> answer, has_music |-> (answer = "music"), video_path |-> videoPath]

RECURSIVE AnalyzeLoop_Partial(_, _, _, _)
\* variant: the responses collected before the failure are returned with the error
AnalyzeLoop_Partial(videoPaths, answers, i, acc) ==
    IF i > Len(videoPaths) THEN [acc EXCEPT !.ret = "nil"]
    ELSE LET called == [acc EXCEPT !.calls = Append(@, videoPaths[i])] IN
         IF answers[i] = "error"
         THEN [called EXCEPT !.ret = "failed to analyze"]
         ELSE AnalyzeLoop_Partial(videoPaths, answers, i + 1,
                  [called EXCEPT !.responses =
                      AppendSlice(@, ClientResponse(videoPaths[i], answers[i]))])

RECURSIVE AnalyzeLoop(_, _, _, _)
\* the loop of AnalyzeVideos from path i on; answers[i] is the client's answer for path i
AnalyzeLoop(videoPaths, answers, i, acc) ==
    IF i > Len(videoPaths) THEN [acc EXCEPT !.ret = "nil"]
    ELSE LET called == [acc EXCEPT !.calls = Append(@, videoPaths[i])] IN
         IF answers[i] = "error"
         THEN [called EXCEPT !.responses = NilSlice, !.ret = "failed to analyze"]
         ELSE AnalyzeLoop(videoPaths, answers, i + 1,
                  [called EXCEPT !.responses =
                      AppendSlice(@, ClientResponse(videoPaths[i], answers[i]))])

VideoPaths == {"gs://bucket/video1.mp4", "gs://bucket/video2.mp4"}

\* the lists of paths a call is made with
VideoPathLists == UNION {[1..n -> VideoPaths] : n \in 0..MaxPaths}

(***************************************************************************)
(* State                                                                   *)
(***************************************************************************)
VARIABLES
    pc,      \* "idle", "lines" (inside the loop of ExportFromString), "done", "parsed",
             \* "unread" (ExportFromFile returned before calling ExportFromString)
    input,   \* the argument of ExportFromString
    lines,   \* the lines the input was split into
    idx,     \* 1-based index of the line the loop is at
    io,      \* the csv writer, its buffer and the output destination
    ret,     \* what ExportFromString returned
    log,     \* the slog entries written so far
    pin,     \* the argument of a direct ParseJSON call
    pout,    \* what that call returned
    tcall,   \* a direct parseTime call: its argument and what it returned
    split,   \* a SplitVideo call: its arguments, the chunks extracted, what it returned
    upload,  \* an UploadFiles call: its arguments, the UploadFile calls made, what it returned
    analysis, \* an AnalyzeVideos call: its argument, the AnalyzeVideo calls made, what it returned
    history  \* the inputs of the earlier export calls made on the same ExportManager

vars ==
    <<pc, input, lines, idx, io, ret, log, pin, pout, tcall, split, upload, analysis, history>>

\* the variables of the export package, the position aside
export == <<input, lines, idx, io, ret, log, pin, pout, history>>
\* the variables of the other packages
tools == <<tcall, split, upload, analysis>>

NoResult == [err |-> FALSE, result |-> NilMap, via |-> "", logs |-> <<>>]
NoSplit ==
    [stat |-> "exists", mkdirOk |-> TRUE, startTime |-> <<>>, endTime |-> <<>>,
     chunkDuration |-> 0, failAt |-> 0, mkdir |-> FALSE, calls |-> <<>>, ret |-> "none"]
NoUpload ==
    [localPaths |-> <<>>, remotePrefix |-> <<>>, outcomes |-> <<>>, calls |-> <<>>,
     ret |-> "none"]
NoAnalysis ==
    [videoPaths |-> <<>>, answers |-> <<>>, calls |-> <<>>, responses |-> NilSlice,
     ret |-> "none"]

Init ==
    /\ pc = "idle"
    /\ input = <<>>
    /\ lines = <<>>
    /\ idx = 0
    /\ io = [buf |-> <<>>, werr |-> FALSE, out |-> <<>>, ok |-> TRUE, rejected |-> FALSE,
             trace |-> <<>>]
    /\ ret = "none"
    /\ log = <<>>
    /\ pin = <<>>
    /\ pout = NoResult
    /\ tcall = [timeStr |-> <<>>, seconds |-> 0, err |-> "none"]
    /\ split = NoSplit
    /\ upload = NoUpload
    /\ analysis = NoAnalysis
    /\ history = <<>>

(***************************************************************************)
(* ExportManager.ExportFromString                                          *)
(***************************************************************************)
\* variant: no header for an input without text
ExportFromString_WriteHeader_Lazy ==
    /\ pc = "idle"
    /\ \E in \in ExportInputs :
        LET w == IF TrimSpace(in) = <<>> THEN [io |-> io, err |-> FALSE] ELSE WriteHeader(io) IN
        /\ input' = in
        /\ io' = w.io
        /\ IF w.err
           THEN /\ ret' = "failed to write CSV header"
                /\ pc' = "done"
                /\ UNCHANGED <<lines, idx>>
           ELSE /\ lines' = SplitLines(TrimSpace(in))
                /\ idx' = 1
                /\ pc' = "lines"
                /\ UNCHANGED ret
    /\ UNCHANGED <<log, pin, pout>>
    /\ UNCHANGED tools
    /\ UNCHANGED history

\* variant: the manager remembers that it wrote the header and writes it once
ExportFromString_WriteHeader_Once ==
    /\ pc = "idle"
    /\ \E in \in ExportInputs :
        LET w == IF io.trace = <<>> THEN WriteHeader(io) ELSE [io |-> io, err |-> FALSE] IN
        /\ input' = in
        /\ io' = w.io
        /\ IF w.err
           THEN /\ ret' = "failed to write CSV header"
                /\ pc' = "done"
                /\ UNCHANGED <<lines, idx>>
           ELSE /\ lines' = SplitLines(TrimSpace(in))
                /\ idx' = 1
                /\ pc' = "lines"
                /\ UNCHANGED ret
    /\ UNCHANGED <<log, pin, pout>>
    /\ UNCHANGED tools
    /\ UNCHANGED history

\* entry: the header is written, the trimmed input is split into lines
ExportFromString_WriteHeader ==
    /\ pc = "idle"
    /\ \E in \in ExportInputs :
        LET w == WriteHeader(io) IN
        /\ input' = in
        /\ io' = w.io
        /\ IF w.err
           THEN /\ ret' = "failed to write CSV header"
                /\ pc' = "done"
                /\ UNCHANGED <<lines, idx>>
           ELSE /\ lines' = SplitLines(TrimSpace(in))
                /\ idx' = 1
                /\ pc' = "lines"
                /\ UNCHANGED ret
    /\ UNCHANGED <<log, pin, pout>>
    /\ UNCHANGED tools
    /\ UNCHANGED history

(***************************************************************************)
(* ExportManager.ExportFromFile                                            *)
(***************************************************************************)
\* the files a path may name: one that cannot be read, or one with a text in it
Files ==
    {[readable |-> FALSE, data |-> <<>>]}
        \cup {[readable |-> TRUE, data |-> in] : in \in ExportInputs}

\* variant: the header is written before the file is read
ExportFromFile_HeaderFirst ==
    /\ pc = "idle"
    /\ \E file \in Files :
        LET w == WriteHeader(io) IN
        /\ io' = w.io
        /\ IF ~file.readable
           THEN /\ ret' = "failed to read input file"
                /\ pc' = "unread"
                /\ UNCHANGED <<input, lines, idx>>
           ELSE /\ input' = file.data
                /\ IF w.err
                   THEN /\ ret' = "failed to write CSV header"
                        /\ pc' = "done"
                        /\ UNCHANGED <<lines, idx>>
                   ELSE /\ lines' = SplitLines(TrimSpace(file.data))
                        /\ idx' = 1
                        /\ pc' = "lines"
                        /\ UNCHANGED ret
    /\ UNCHANGED <<log, pin, pout>>
    /\ UNCHANGED tools
    /\ UNCHANGED history

\* os.ReadFile, then the entry of ExportFromString on the text that was read
ExportFromFile ==
    /\ pc = "idle"
    /\ \E file \in Files :
        IF ~file.readable
        THEN /\ ret' = "failed to read input file"
             /\ pc' = "unread"
             /\ UNCHANGED <<input, lines, idx, io>>
        ELSE LET w == WriteHeader(io) IN
             /\ input' = file.data
             /\ io' = w.io
             /\ IF w.err
                THEN /\ ret' = "failed to write CSV header"
                     /\ pc' = "done"
                     /\ UNCHANGED <<lines, idx>>
                ELSE /\ lines' = SplitLines(TrimSpace(file.data))
                     /\ idx' = 1
                     /\ pc' = "lines"
                     /\ UNCHANGED ret
    /\ UNCHANGED <<log, pin, pout>>
    /\ UNCHANGED tools
    /\ UNCHANGED history

\* variant: the continue after a failed parse is missing, the record is written anyway
ExportFromString_Line_NoSkip ==
    /\ pc = "lines"
    /\ idx <= Len(lines)
    /\ LET line == TrimSpace(lines[idx]) IN
       IF line = <<>>
       THEN /\ idx' = idx + 1
            /\ UNCHANGED <<pc, io, ret, log>>
       ELSE LET r == ParseJSON(line)
                processing == <<LogEntry("INFO", "Processing line", idx)>> \o r.logs
                w == WriteRecord(io, r.result)
            IN  /\ log' = IF r.err
                          THEN log \o processing
                                \o <<LogEntry("WARN", "Failed to parse line, skipping", idx)>>
                          ELSE log \o processing
                /\ io' = w.io
                /\ IF w.err
                   THEN /\ ret' = "failed to write CSV record"
                        /\ pc' = "done"
                        /\ UNCHANGED idx
                   ELSE /\ idx' = idx + 1
                        /\ UNCHANGED <<pc, ret>>
    /\ UNCHANGED <<input, lines, pin, pout>>
    /\ UNCHANGED tools
    /\ UNCHANGED history

\* variant: a failed parse is returned as the error of the call
ExportFromString_Line_Abort ==
    /\ pc = "lines"
    /\ idx <= Len(lines)
    /\ LET line == TrimSpace(lines[idx]) IN
       IF line = <<>>
       THEN /\ idx' = idx + 1
            /\ UNCHANGED <<pc, io, ret, log>>
       ELSE LET r == ParseJSON(line)
                processing == <<LogEntry("INFO", "Processing line", idx)>> \o r.logs
            IN  IF r.err
                THEN /\ log' = log \o processing
                     /\ ret' = "failed to parse line"
                     /\ pc' = "done"
                     /\ UNCHANGED <<idx, io>>
                ELSE LET w == WriteRecord(io, r.result) IN
                     /\ log' = log \o processing
                     /\ io' = w.io
                     /\ IF w.err
                        THEN /\ ret' = "failed to write CSV record"
                             /\ pc' = "done"
                             /\ UNCHANGED idx
                        ELSE /\ idx' = idx + 1
                             /\ UNCHANGED <<pc, ret>>
    /\ UNCHANGED <<input, lines, pin, pout>>
    /\ UNCHANGED tools
    /\ UNCHANGED history

\* variant: the writer is flushed after every record
ExportFromString_Line_FlushEach ==
    /\ pc = "lines"
    /\ idx <= Len(lines)
    /\ LET Written(w) ==
               /\ io' = IF w.err THEN w.io ELSE Flush(w.io)
               /\ IF w.err
                  THEN /\ ret' = "failed to write CSV record"
                       /\ pc' = "done"
                       /\ UNCHANGED idx
                  ELSE /\ idx' = idx + 1
                       /\ UNCHANGED <<pc, ret>>
           Parsed(r) ==
               IF r.err
               THEN /\ log' = log \o <<LogEntry("INFO", "Processing line", idx)>> \o r.logs
                                \o <<LogEntry("WARN", "Failed to parse line, skipping", idx)>>
                    /\ idx' = idx + 1
                    /\ UNCHANGED <<pc, io, ret>>
               ELSE /\ log' = log \o <<LogEntry("INFO", "Processing line", idx)>> \o r.logs
                    /\ Written(WriteRecord(io, r.result))
           Trimmed(line) ==
               IF line = <<>>
               THEN /\ idx' = idx + 1
                    /\ UNCHANGED <<pc, io, ret, log>>
               ELSE Parsed(ParseJSON(line))
       IN  Trimmed(TrimSpace(lines[idx]))
    /\ UNCHANGED <<input, lines, pin, pout>>
    /\ UNCHANGED tools
    /\ UNCHANGED history

\* variant: a line that is empty after trimming is parsed like any other
ExportFromString_Line_NoBlankSkip ==
    /\ pc = "lines"
    /\ idx <= Len(lines)
    /\ LET Written(w) ==
               /\ io' = w.io
               /\ IF w.err
                  THEN /\ ret' = "failed to write CSV record"
                       /\ pc' = "done"
                       /\ UNCHANGED idx
                  ELSE /\ idx' = idx + 1
                       /\ UNCHANGED <<pc, ret>>
           Parsed(r) ==
               IF r.err
               THEN /\ log' = log \o <<LogEntry("INFO", "Processing line", idx)>> \o r.logs
                                \o <<LogEntry("WARN", "Failed to parse line, skipping", idx)>>
                    /\ idx' = idx + 1
                    /\ UNCHANGED <<pc, io, ret>>
               ELSE /\ log' = log \o <<LogEntry("INFO", "Processing line", idx)>> \o r.logs
                    /\ Written(WriteRecord(io, r.result))
           Trimmed(line) == Parsed(ParseJSON(line))
       IN  Trimmed(TrimSpace(lines[idx]))
    /\ UNCHANGED <<input, lines, pin, pout>>
    /\ UNCHANGED tools
    /\ UNCHANGED history

\* one iteration of the loop over the lines
ExportFromString_Line ==
    /\ pc = "lines"
    /\ idx <= Len(lines)
    /\ LET Written(w) ==
               /\ io' = w.io
               /\ IF w.err
                  THEN /\ ret' = "failed to write CSV record"
                       /\ pc' = "done"
                       /\ UNCHANGED idx
                  ELSE /\ idx' = idx + 1
                       /\ UNCHANGED <<pc, ret>>
           Parsed(r) ==
               IF r.err
               THEN /\ log' = log \o <<LogEntry("INFO", "Processing line", idx)>> \o r.logs
                                \o <<LogEntry("WARN", "Failed to parse line, skipping", idx)>>
                    /\ idx' = idx + 1
                    /\ UNCHANGED <<pc, io, ret>>
               ELSE /\ log' = log \o <<LogEntry("INFO", "Processing line", idx)>> \o r.logs
                    /\ Written(WriteRecord(io, r.result))
           Trimmed(line) ==
               IF line = <<>>
               THEN /\ idx' = idx + 1
                    /\ UNCHANGED <<pc, io, ret, log>>
               ELSE Parsed(ParseJSON(line))
       IN  Trimmed(TrimSpace(lines[idx]))
    /\ UNCHANGED <<input, lines, pin, pout>>
    /\ UNCHANGED tools
    /\ UNCHANGED history

\* after the loop: flush, log, return nil
ExportFromString_Flush ==
    /\ pc = "lines"
    /\ idx > Len(lines)
    /\ io' = Flush(io)
    /\ log' = Append(log, LogEntry("INFO", "Export completed successfully", 0))
    /\ ret' = "nil"
    /\ pc' = "done"
    /\ UNCHANGED <<input, lines, idx, pin, pout>>
    /\ UNCHANGED tools
    /\ UNCHANGED history

\* the output destination stops accepting writes
SinkBreaks ==
    /\ pc \in {"idle", "lines"}
    /\ io.ok
    /\ io' = [io EXCEPT !.ok = FALSE]
    /\ UNCHANGED <<pc, input, lines, idx, ret, log, pin, pout>>
    /\ UNCHANGED tools
    /\ UNCHANGED history

\* a call of RelaxedJSONParser.ParseJSON on its own
CallParseJSON ==
    /\ pc = "idle"
    /\ io.ok
    /\ \E in \in ParserInputs :
        /\ pin' = in
        /\ pout' = ParseJSON(in)
    /\ pc' = "parsed"
    /\ UNCHANGED <<input, lines, idx, io, ret, log>>
    /\ UNCHANGED tools
    /\ UNCHANGED history

\* a call of parseTime on its own
CallParseTime ==
    /\ pc = "idle"
    /\ io.ok
    /\ \E timeStr \in TimeStrings :
        LET Returned(r) ==
                tcall' = [timeStr |-> timeStr, seconds |-> r.seconds, err |-> r.err]
        IN  Returned(parseTime(timeStr))
    /\ pc' = "timed"
    /\ UNCHANGED export
    /\ UNCHANGED <<split, upload, analysis>>

\* VideoProcessor.SplitVideo
SplitVideo ==
    /\ pc = "idle"
    /\ io.ok
    /\ \E stat \in Stats, mkdirOk \in BOOLEAN, startTime, endTime \in SplitTimes,
          chunkDuration \in ChunkDurations, failAt \in 0..MaxFail :
        split' = [stat |-> stat, mkdirOk |-> mkdirOk, startTime |-> startTime,
                  endTime |-> endTime, chunkDuration |-> chunkDuration, failAt |-> failAt]
                    @@ SplitBody(stat, mkdirOk, startTime, endTime, chunkDuration, failAt)
    /\ pc' = "split"
    /\ UNCHANGED export
    /\ UNCHANGED <<tcall, upload, analysis>>

\* UploadManager.UploadFiles
UploadFiles ==
    /\ pc = "idle"
    /\ io.ok
    /\ \E localPaths \in PathLists, remotePrefix \in RemotePrefixes :
        \E outcomes \in [1..Len(localPaths) -> BOOLEAN] :
            upload' = [localPaths |-> localPaths, remotePrefix |-> remotePrefix,
                       outcomes |-> outcomes]
                         @@ UploadLoop(localPaths, remotePrefix, outcomes, 1, <<>>)
    /\ pc' = "uploaded"
    /\ UNCHANGED export
    /\ UNCHANGED <<tcall, split, analysis>>

\* AnalysisManager.AnalyzeVideos
AnalyzeVideos ==
    /\ pc = "idle"
    /\ io.ok
    /\ \E videoPaths \in VideoPathLists :
        \E answers \in [1..Len(videoPaths) -> Answers] :
            analysis' = [videoPaths |-> videoPaths, answers |-> answers]
                           @@ AnalyzeLoop(videoPaths, answers, 1,
                                          [calls |-> <<>>, responses |-> NilSlice, ret |-> "none"])
    /\ pc' = "analyzed"
    /\ UNCHANGED export
    /\ UNCHANGED <<tcall, split, upload>>

Next ==
    \/ ExportFromString_WriteHeader
    \/ ExportFromFile
    \/ ExportFromString_Line
    \/ ExportFromString_Flush
    \/ SinkBreaks
    \/ CallParseJSON
    \/ CallParseTime
    \/ SplitVideo
    \/ UploadFiles
    \/ AnalyzeVideos

Spec == Init /\ [][Next]_vars

(***************************************************************************)
(* Several export calls on one ExportManager                               *)
(***************************************************************************)
\* the calls made on one manager
MaxCalls == 2

\* the inputs of the calls that are followed by another call
RepeatInputs ==
    {RenderObject(ObjComplete, "compact"),
     JoinLines(<<Malformed, Embed(Before, ObjSparse, "compact", After)>>)}

\* the caller, after a call that returned nil, is about to make the next call on the
\* same manager: the exporter, its writer and the destination are the same objects
CallAgain ==
    /\ pc = "done"
    /\ ret = "nil"
    /\ Len(history) + 1 < MaxCalls
    /\ input \in RepeatInputs
    /\ history' = Append(history, input)
    /\ pc' = "idle"
    /\ input' = <<>>
    /\ lines' = <<>>
    /\ idx' = 0
    /\ ret' = "none"
    /\ UNCHANGED <<io, log, pin, pout>>
    /\ UNCHANGED tools

NextCalls ==
    \/ ExportFromString_WriteHeader
    \/ ExportFromFile
    \/ ExportFromString_Line
    \/ ExportFromString_Flush
    \/ CallAgain

SpecCalls == Init /\ [][NextCalls]_vars

(***************************************************************************)
(* Properties                                                              *)
(***************************************************************************)
\* rows handed to the csv writer so far: those the destination holds, then those buffered
Emitted == io.out \o io.buf

DataRows(rows) == SelectSeq(rows, LAMBDA row : row # header)

RECURSIVE ParsedRecords(_, _)
ParsedRecords(ls, k) ==
    IF k > Len(ls) THEN <<>>
    ELSE LET line == TrimSpace(ls[k])
             r == ParseJSON(line)
         IN  (IF line # <<>> /\ ~r.err THEN <<r.result>> ELSE <<>>) \o ParsedRecords(ls, k + 1)

\* the records of the non-blank lines of the text on which ParseJSON succeeds, in line order
SuccessfulRecords(in) == ParsedRecords(SplitLines(in), 1)

NonBlankLines(in) ==
    {k \in 1..Len(SplitLines(in)) : TrimSpace(SplitLines(in)[k]) # <<>>}

HasLog(level, msg) == \E n \in 1..Len(log) : log[n].level = level /\ log[n].msg = msg

\* C1: when ExportFromString has returned and the destination accepted every write, the
\* data rows it holds are the rows of the non-blank lines on which ParseJSON succeeds,
\* one per such line, in line order; a failing line contributes none.
C1_RowsAreSuccessfulParses ==
    pc = "done" /\ ~io.rejected =>
        LET recs == SuccessfulRecords(input) IN
        DataRows(io.out) = [j \in 1..Len(recs) |-> RecordRow(recs[j])]

C1_Witness ==
    /\ pc = "done" /\ ~io.rejected
    /\ Len(DataRows(io.out)) = 2
    /\ Cardinality(NonBlankLines(input)) = 3
    /\ HasLog("WARN", "Failed to parse line, skipping")

\* C2: a parse failure never aborts the call: when every write to the destination
\* succeeded the call returned nil and every non-blank line was processed, those after
\* a failing line included.
C2_ParseFailureNeverAborts ==
    pc = "done" /\ ~io.rejected =>
        /\ ret = "nil"
        /\ Len(SelectSeq(log, LAMBDA e : e.msg = "Processing line"))
              = Cardinality(NonBlankLines(input))

C2_Witness ==
    /\ pc = "done" /\ ~io.rejected /\ ret = "nil"
    /\ \E a, b \in 1..Len(log) :
          /\ a < b
          /\ log[a].msg = "Failed to parse line, skipping"
          /\ log[b].msg = "Processing line"

\* C3: once ExportFromString is past its first statement, exactly one header row has
\* been written and it is the first row, whatever the input; after a return with
\* every write accepted the destination's first row is the header.
C3_OneHeaderFirst ==
    pc \in {"lines", "done"} =>
        /\ Len(Emitted) >= 1
        /\ Emitted[1] = header
        /\ \A k \in 2..Len(Emitted) : Emitted[k] # header
        /\ (pc = "done" /\ ~io.rejected => Len(io.out) >= 1 /\ io.out[1] = header)

C3_Witness ==
    /\ pc = "done" /\ ~io.rejected
    /\ io.out = <<header>>
    /\ \/ input = <<>>
       \/ input = <<SP>>
       \/ HasLog("WARN", "Failed to parse line, skipping")

Columns ==
    <<"description", "has_music", "transcript", "song_title", "song_artist",
      "web_search_song_title", "web_search_song_artist", "youtube_url", "spotify_url",
      "video_path">>

NullMarkers == {"<nil>", "null", "nil"}

\* C5: in every data row a string column holds the record's value when the key is
\* present with a string value and "" otherwise; has_music holds "true" only for a
\* present boolean true and "false" otherwise; no cell is a null marker; the call
\* returns an error only after a rejected write, never for a value of another type.
C5_CellValues ==
    /\ ret \notin {"none", "nil", "failed to read input file"} => io.rejected
    /\ \A k \in 2..Len(Emitted) :
          LET rec == SuccessfulRecords(input)[k - 1].m IN
          \A c \in 1..10 :
              LET key == Columns[c] IN
              /\ Emitted[k][c] \notin NullMarkers
              /\ IF key = "has_music"
                 THEN Emitted[k][c] =
                          (IF key \in DOMAIN rec /\ rec[key] = BoolVal(TRUE) THEN "true" ELSE "false")
                 ELSE Emitted[k][c] =
                          (IF key \in DOMAIN rec /\ rec[key].t = "string" THEN rec[key].s ELSE "")

C5_Witness ==
    \E k \in 2..Len(Emitted) :
        LET rec == SuccessfulRecords(input)[k - 1].m IN
        /\ rec = ObjMistyped
        /\ Emitted[k] = <<"", "false", "", "Anthem", "", "", "", "", "", "">>

\* the texts that are one of the objects as a whole
WholeTexts(m) ==
    {RenderObject(m, style) : style \in Styles} \cup {<<SP>> \o RenderObject(m, "compact") \o <<NL>>}

RECURSIVE InRange(_)
\* no number of the object is outside the range of float64
InRange(m) ==
    \A key \in DOMAIN m :
        /\ ~(m[key].t = "float64" /\ m[key].s \in OutOfRange)
        /\ m[key].t = "map" => InRange(m[key].o)

C7_EmbeddedObjectRecovered ==
    pc = "parsed" =>
        \A m \in Objects, pre \in Prefixes, post \in Suffixes :
            /\ InRange(m)
            /\ pre # <<>> \/ post # <<>>
            /\ pin = Embed(pre, m, "compact", post)
            => ~pout.err /\ pout.result = MakeMap(m)

NoCandidateParses(in) ==
    \A p \in 1..Len(jsonPatterns) :
        LET matches == FindAllString(jsonPatterns[p], in) IN
        \A n \in 1..Len(matches) : JSONUnmarshal(matches[n], NilMap).err

NoFieldMatches(in) ==
    \A key \in DOMAIN patterns : FindStringSubmatch(patterns[key], in).len = 0

\* C8: for every text that is not JSON as a whole, has no brace-delimited candidate
\* that parses and matches no field pattern, ParseJSON returns an error and no mapping.
C8_NothingRecoverableIsError ==
    pc = "parsed" /\ ~JSONValid(pin) /\ NoCandidateParses(pin) /\ NoFieldMatches(pin) =>
        pout.err /\ pout.result = NilMap

C8_Witness ==
    /\ pc = "parsed"
    /\ pin = Before \o NoColon
    /\ pout.err

\* C9: whenever ParseJSON returns without error the mapping is non-nil and has at
\* least one field.
C9_SuccessHasField ==
    pc = "parsed" /\ ~pout.err => ~pout.result.nil /\ DOMAIN pout.result.m # {}

\* C10: whenever the destination rejected a write during the call, ExportFromString
\* returns an error.
C10_RejectedWriteIsFatal ==
    pc = "done" /\ io.rejected => ret # "nil"

\* C11: when ExportFromFile cannot read its input file it returns an error and nothing
\* has reached the sink: no header, no data row, no flush, neither in the destination
\* nor in the writer's buffer.
C11_UnreadableFileWritesNothing ==
    pc = "unread" =>
        /\ ret = "failed to read input file"
        /\ io.out = <<>> /\ io.buf = <<>>
        /\ ~io.werr /\ ~io.rejected
        /\ log = <<>>

C11_Witness ==
    pc = "unread" /\ ret = "failed to read input file" /\ io.ok

\* the nested value each flattened column would be taken from: column -> <<object, key>>
NestedSource ==
    (4 :> <<"song", "title">>) @@ (5 :> <<"song", "artist">>)
        @@ (6 :> <<"web_search_song", "title">>) @@ (7 :> <<"web_search_song", "artist">>)
        @@ (8 :> <<"urls", "youtube">>) @@ (9 :> <<"urls", "spotify">>)

HasNested(rec, c) ==
    /\ NestedSource[c][1] \in DOMAIN rec.m
    /\ rec.m[NestedSource[c][1]].t = "map"
    /\ NestedSource[c][2] \in DOMAIN rec.m[NestedSource[c][1]].o
    /\ rec.m[NestedSource[c][1]].o[NestedSource[c][2]].t = "string"

\* C12: the exporter flattens a nested record into the fixed columns: the strings
\* nested under song, web_search_song and urls are the cells of the columns song_title,
\* song_artist, web_search_song_title, web_search_song_artist, youtube_url, spotify_url.
C12_NestedValuesFlattened ==
    pc = "done" /\ ~io.rejected =>
        LET recs == SuccessfulRecords(input)
            rows == DataRows(io.out)
        IN  \A j \in 1..Len(recs) : \A c \in DOMAIN NestedSource :
                HasNested(recs[j], c) /\ j <= Len(rows) =>
                    rows[j][c] = recs[j].m[NestedSource[c][1]].o[NestedSource[c][2]].s

\* C13: ParseJSON is deterministic although the heuristic tier ranges over its patterns
\* in an unspecified order: whatever order the range takes, the heuristic tier returns
\* for the input the outcome the call returned.
C13_OrderDoesNotMatter ==
    pc = "parsed" /\ pout.via = "manual" =>
        \A order \in RangeOrders :
            /\ parseManuallyIn(pin, order).err = pout.err
            /\ parseManuallyIn(pin, order).result = pout.result

C13_Witness ==
    /\ pc = "parsed" /\ pout.via = "manual" /\ ~pout.err
    /\ Cardinality(DOMAIN pout.result.m) >= 3

\* the positions of the text at which the pattern of the key matches
MatchStarts(key, text) ==
    {i \in 1..Len(text) : MatchFrom(patterns[key], 1, text, i, "").len > 1}

\* what the first match of the key's pattern captures
FirstCapture(key, text) ==
    LET first == CHOOSE i \in MatchStarts(key, text) : \A n \in MatchStarts(key, text) : i <= n
    IN  MatchFrom(patterns[key], 1, text, first, "").group

\* the cell of a column in the row of a text only the heuristic tier reads
HeuristicCell(column, text) ==
    IF column = "has_music"
    THEN (IF MatchStarts(column, text) # {} /\ FirstCapture(column, text) = "true"
          THEN "true" ELSE "false")
    ELSE IF column \in DOMAIN patterns /\ MatchStarts(column, text) # {}
    THEN FirstCapture(column, text)
    ELSE ""

RECURSIVE SuccessfulParses(_, _)
\* the non-blank lines on which ParseJSON succeeds, each with what ParseJSON returned
SuccessfulParses(ls, k) ==
    IF k > Len(ls) THEN <<>>
    ELSE LET line == TrimSpace(ls[k])
             Parsed(r) == IF line # <<>> /\ ~r.err THEN <<[line |-> line, r |-> r]>> ELSE <<>>
         IN  Parsed(ParseJSON(line)) \o SuccessfulParses(ls, k + 1)

\* C14: in the heuristic tier each of the six field patterns is tried on the whole
\* input on its own and contributes at most one value, the capture of its first match;
\* has_music is stored as the boolean that is true exactly when the token is "true",
\* every other field as the captured string. Exported, such a text yields a row that
\* carries exactly the matched fields, every other column empty (false for has_music).
C14_HeuristicFields ==
    /\ pc = "parsed" /\ pout.via = "manual" /\ ~pout.err =>
          /\ DOMAIN pout.result.m = {key \in DOMAIN patterns : MatchStarts(key, pin) # {}}
          /\ \A key \in DOMAIN pout.result.m :
                pout.result.m[key] =
                    IF key = "has_music" THEN BoolVal(FirstCapture(key, pin) = "true")
                    ELSE StringVal(FirstCapture(key, pin))
    /\ pc = "done" /\ ~io.rejected =>
          LET parses == SuccessfulParses(SplitLines(input), 1)
              rows == DataRows(io.out)
          IN  \A j \in 1..Len(parses) :
                  parses[j].r.via = "manual" /\ j <= Len(rows) =>
                      rows[j] = [c \in 1..Len(Columns) |-> HeuristicCell(Columns[c], parses[j].line)]

C14_Witness ==
    /\ pc = "done" /\ ~io.rejected
    /\ \E j \in 1..Len(io.out) :
          io.out[j] = <<"", "true", "", "Roadtrip Anthem", "Travel Band", "", "", "", "", "">>

\* C15: parseTime returns h*3600 + m*60 + s without error exactly for the inputs made
\* of three colon-separated integers with h in 0..23, m in 0..59 and s in 0..59; every
\* other non-empty input gives an error with the value 0; the empty string gives 0
\* without error; every successful result lies in 0..86399.
C15_ParseTimeContract ==
    pc = "timed" =>
        LET WellFormed(h, m, s) ==
                /\ tcall.timeStr = HMS(h.text, m.text, s.text)
                /\ h.val \in 0..23 /\ m.val \in 0..59 /\ s.val \in 0..59
        IN  /\ tcall.timeStr = <<>> => tcall.err = "nil" /\ tcall.seconds = 0
            /\ \A h, m, s \in Numerals :
                  WellFormed(h, m, s) =>
                      tcall.err = "nil" /\ tcall.seconds = h.val * 3600 + m.val * 60 + s.val
            /\ tcall.timeStr # <<>> /\ ~(\E h, m, s \in Numerals : WellFormed(h, m, s)) =>
                  tcall.err # "nil" /\ tcall.seconds = 0
            /\ tcall.err = "nil" => tcall.seconds \in 0..86399

C15_Witness ==
    /\ pc = "timed" /\ tcall.err = "nil"
    /\ tcall.timeStr = HMS(<<"2", "3">>, <<"5", "9">>, <<"5", "9">>)
    /\ tcall.seconds = 86399

\* the result of SplitVideo is an error (a panic is not a returned error)
SplitError == split.ret \notin {"nil", "none", "panic: integer divide by zero"}

\* C16: whenever the input file does not exist, or a time fails to parse, or the
\* parsed start is not strictly before the parsed end, SplitVideo returns an error
\* and extractChunk is never called.
C16_InvalidRangeIsRejected ==
    pc = "split" /\ (\/ split.stat = "not exist"
                     \/ parseTime(split.startTime).err # "nil"
                     \/ parseTime(split.endTime).err # "nil"
                     \/ parseTime(split.startTime).seconds >= parseTime(split.endTime).seconds)
        => SplitError /\ split.calls = <<>>

C16_Witness ==
    /\ pc = "split" /\ split.stat = "exists" /\ split.mkdirOk
    /\ parseTime(split.startTime).err = "nil" /\ parseTime(split.endTime).err = "nil"
    /\ parseTime(split.startTime).seconds > parseTime(split.endTime).seconds
    /\ split.endTime # <<>>
    /\ split.chunkDuration = 30
    /\ split.ret = "start time must be before end time" /\ split.calls = <<>>

\* the positions of a list at which the client fails
Failing(outcomes) == {i \in 1..Len(outcomes) : ~outcomes[i]}

\* the position of the last call made: the first failing one, or the last of the list
LastCalled(outcomes) ==
    IF Failing(outcomes) = {} THEN Len(outcomes)
    ELSE CHOOSE i \in Failing(outcomes) : \A n \in Failing(outcomes) : i <= n

Erring(answers) == {i \in 1..Len(answers) : answers[i] = "error"}

ParsingCandidates(in) ==
    SelectSeq(Candidates(in, 1), LAMBDA c : ~JSONUnmarshal(c.match, NilMap).err)

\* C19: the tiers are strictly gated: the heuristic tier contributes only when the
\* input is not valid JSON as a whole and no embedded candidate parses; whenever an
\* embedded candidate parses, the result is exactly that candidate's mapping, with no
\* field taken from a heuristic match in the surrounding prose.
C19_TiersStrictlyGated ==
    pc = "parsed" =>
        /\ pout.via = "manual" /\ ~pout.err =>
              ~JSONValid(pin) /\ Len(ParsingCandidates(pin)) = 0
        /\ JSONUnmarshal(pin, NilMap).err /\ Len(ParsingCandidates(pin)) > 0 =>
              /\ ~pout.err
              /\ pout.via # "manual"
              /\ pout.result = JSONUnmarshal(ParsingCandidates(pin)[1].match, NilMap).result

\* the matches of a pattern in the text that parse on their own, left to right
ParsingMatches(pattern, in) ==
    SelectSeq(FindAllString(pattern, in), LAMBDA match : ~JSONUnmarshal(match, NilMap).err)

\* the mapping holds every entry of the object the text is
Holds(result, text) ==
    LET m == JSONUnmarshal(text, NilMap).result.m IN
    \A key \in DOMAIN m : key \in DOMAIN result.m /\ result.m[key] = m[key]

Flushes == SelectSeq(io.trace, LAMBDA method : method = "Flush")

\* C21: a call of ExportFromString that returns without error flushes the sink exactly
\* once, after the header and the last data row were written; no flush occurs between
\* rows, and a call that returns a write error performs no flush.
C21_FlushOnceAtTheEnd ==
    /\ pc = "lines" => Len(Flushes) = 0
    /\ pc = "done" /\ ret = "nil" =>
          /\ Len(Flushes) = 1
          /\ io.trace[Len(io.trace)] = "Flush"
          /\ io.trace[1] = "WriteHeader"
          /\ \A n \in 2..(Len(io.trace) - 1) : io.trace[n] = "WriteRecord"
          /\ Len(io.trace) = Len(SuccessfulRecords(input)) + 2
    /\ pc = "done" /\ ret # "nil" => Len(Flushes) = 0

C21_Witness ==
    /\ pc = "done" /\ ret = "nil"
    /\ io.trace = <<"WriteHeader", "WriteRecord", "WriteRecord", "WriteRecord", "Flush">>
    /\ Len(io.out) = 4

\* the lines of the text that are not empty after trimming, in order
RECURSIVE WithoutBlank(_)
WithoutBlank(ls) ==
    IF ls = <<>> THEN <<>>
    ELSE (IF TrimSpace(ls[1]) = <<>> THEN <<>> ELSE <<ls[1]>>) \o WithoutBlank(Tail(ls))

\* the log entries that name a line
LineEntries == SelectSeq(log, LAMBDA e : e.line > 0)

\* C22: a line that is empty after trimming is skipped silently: no log entry (parser
\* call, warning) names it, it contributes no row, and the rows written are those of
\* the text with its blank lines taken out, wherever the blank lines stand.
C22_BlankLinesSkippedSilently ==
    /\ pc \in {"lines", "done"} =>
          \A n \in 1..Len(LineEntries) : TrimSpace(lines[LineEntries[n].line]) # <<>>
    /\ pc = "done" /\ ~io.rejected =>
          LET recs == ParsedRecords(WithoutBlank(SplitLines(input)), 1) IN
          /\ DataRows(io.out) = [j \in 1..Len(recs) |-> RecordRow(recs[j])]
          /\ Len(SelectSeq(log, LAMBDA e : e.msg = "Processing line"))
                = Len(WithoutBlank(SplitLines(input)))

C22_Witness ==
    /\ pc = "done" /\ ~io.rejected
    /\ Len(lines) = 3 /\ lines[2] = <<SP>>
    /\ Len(DataRows(io.out)) = 2
    /\ ~HasLog("WARN", "Failed to parse line, skipping")

\* the positions, in the input, of the non-blank lines on which ParseJSON fails
FailingLines(in) ==
    {k \in 1..Len(SplitLines(in)) :
        /\ TrimSpace(SplitLines(in)[k]) # <<>>
        /\ ParseJSON(TrimSpace(SplitLines(in)[k])).err}

Warnings == SelectSeq(log, LAMBDA e : e.level = "WARN")

\* C23: for each line that fails all three tiers exactly one warning is logged during
\* the export, and it names the line's 1-based position in the input; no other
\* warning is logged.
C23_OneWarningPerFailedBlob ==
    pc = "done" /\ ~io.rejected =>
        /\ Len(Warnings) = Cardinality(FailingLines(input))
        /\ \A k \in FailingLines(input) :
              Cardinality({n \in 1..Len(Warnings) : Warnings[n].line = k}) = 1

\* the call had an existing file, a creatable directory and a range start < end
ValidRange ==
    /\ split.stat # "not exist" /\ split.mkdirOk
    /\ parseTime(split.startTime).err = "nil" /\ parseTime(split.endTime).err = "nil"
    /\ parseTime(split.startTime).seconds < parseTime(split.endTime).seconds

\* the name is chunk_ddd.mp4 with ddd the three digits of the number
NamedChunk(outputFile, number) ==
    /\ Len(outputFile) = 5
    /\ outputFile[1] = "chunk_" /\ outputFile[5] = ".mp4"
    /\ \A k \in 2..4 : IsDigit(outputFile[k])
    /\ DecimalValue(SubSeq(outputFile, 2, 4)) = number

\* C24: for a valid range start < end and a chunkDuration d > 0, when no run of ffmpeg
\* fails, SplitVideo extracts n = ceil((end - start) / d) chunks named chunk_001,
\* chunk_002, ... in increasing order, chunk i covering [start + (i-1)*d,
\* min(start + i*d, end)): the chunks are non-empty, contiguous, at most d long,
\* cover exactly [start, end), and only the last may be shorter than d.
C24_ChunksTileTheRange ==
    pc = "split" /\ ValidRange /\ split.chunkDuration > 0 /\ split.ret = "nil" =>
        LET start == parseTime(split.startTime).seconds
            end == parseTime(split.endTime).seconds
            d == split.chunkDuration
            n == Len(split.calls)
            c == split.calls
        IN  /\ n * d >= end - start /\ (n - 1) * d < end - start
            /\ \A i \in 1..n :
                  /\ c[i].start = start + (i - 1) * d
                  /\ c[i].end = IF start + i * d < end THEN start + i * d ELSE end
                  /\ c[i].start < c[i].end /\ c[i].end - c[i].start <= d
                  /\ i < n => c[i].end - c[i].start = d /\ c[i].end = c[i + 1].start
                  /\ NamedChunk(c[i].outputFile, i)
            /\ c[1].start = start /\ c[n].end = end

C24_Witness ==
    /\ pc = "split" /\ ValidRange /\ split.ret = "nil"
    /\ split.chunkDuration = 3 /\ Len(split.calls) = 3
    /\ split.calls[3] = [outputFile |-> <<"chunk_", "0", "0", "3", ".mp4">>,
                           start |-> 6, end |-> 7]

\* C25: with a chunkDuration that is zero or negative SplitVideo returns an error: it
\* neither crashes on the division nor returns nil without chunks covering the range.
C25_BadChunkDurationIsError ==
    pc = "split" /\ ValidRange /\ split.chunkDuration <= 0 => SplitError

\* C26: ExportFromString parses every line on its own: an object written over several
\* lines is never parsed as one record (no row is the object's row), each of its lines
\* goes through ParseJSON, and a line holding a "transcript": "..." member gives a row
\* of its own through the heuristic tier while the other lines give none.
C26_LinesParsedInIsolation ==
    pc = "done" /\ ~io.rejected =>
        \A m \in PrettyObjects :
            input = RenderObject(m, "pretty") =>
                /\ \A k \in 1..Len(io.out) : io.out[k] # RecordRow(MakeMap(m))
                /\ Len(SelectSeq(log, LAMBDA e : e.msg = "Processing line"))
                      = Cardinality(DOMAIN m) + 2
                /\ DataRows(io.out) =
                      IF "transcript" \in DOMAIN m
                      THEN <<<<"", "false", m["transcript"].s, "", "", "", "", "", "", "">>>>
                      ELSE <<>>

C26_Witness ==
    /\ pc = "done" /\ ~io.rejected
    /\ input = RenderObject(ObjSpoken, "pretty")
    /\ JSONValid(input)
    /\ io.out = <<header, <<"", "false", "Hello world", "", "", "", "", "", "", "">>>>

\* the rows one successful call on the text adds to the sink
RowsOfCall(in) ==
    <<header>> \o [j \in 1..Len(SuccessfulRecords(in)) |-> RecordRow(SuccessfulRecords(in)[j])]

RECURSIVE RowsOfCalls(_)
RowsOfCalls(ins) ==
    IF ins = <<>> THEN <<>> ELSE RowsOfCall(ins[1]) \o RowsOfCalls(Tail(ins))

\* C27: the ExportManager keeps no "header already written" state: after k successful
\* ExportFromString or ExportFromFile calls on one manager the sink holds k header
\* rows, each immediately before the data rows of its own call.
C27_HeaderPerCall ==
    pc = "done" /\ ret = "nil" => io.out = RowsOfCalls(Append(history, input))

C27_Witness ==
    /\ pc = "done" /\ ret = "nil"
    /\ Len(history) = 1
    /\ Len(io.out) = 5
    /\ io.out[1] = header /\ io.out[2] # header
    /\ io.out[3] = header /\ io.out[4] # header /\ io.out[5] # header

\* C28 as stated: with an empty endTime, an existing input file and a start time that
\* parses, SplitVideo always fails with "start time must be before end time" and
\* extracts no chunk.
C28_EmptyEndTimeRejected ==
    pc = "split" /\ split.stat = "exists" /\ split.endTime = <<>>
        /\ parseTime(split.startTime).err = "nil" =>
            split.ret = "start time must be before end time" /\ split.calls = <<>>

\* C28: with an empty endTime, an existing input file, an output directory that can
\* be created and a start time that parses, SplitVideo always fails with "start time
\* must be before end time", for every such start time, the empty one included, and
\* extracts no chunk.
C28_EmptyEndTimeRejectedAfterMkdir ==
    pc = "split" /\ split.stat = "exists" /\ split.mkdirOk /\ split.endTime = <<>>
        /\ parseTime(split.startTime).err = "nil" =>
            split.ret = "start time must be before end time" /\ split.calls = <<>>

C28_Witness ==
    /\ pc = "split" /\ split.stat = "exists" /\ split.mkdirOk
    /\ split.endTime = <<>> /\ split.startTime = <<>>
    /\ split.chunkDuration = 30
    /\ split.ret = "start time must be before end time" /\ split.calls = <<>>

C30_FailedDecodeLeavesNothing ==
    pc = "parsed" /\ ~pout.err /\ pout.via \notin {"standard", "manual"} =>
        /\ Len(ParsingCandidates(pin)) > 0
        /\ DOMAIN pout.result.m
              = DOMAIN JSONUnmarshal(ParsingCandidates(pin)[1].match, NilMap).result.m

====
